---- MODULE Spec2Model ----
(***************************************************************************)
(* Model of the admission webhook of tianlang724/webhook.                  *)
(*                                                                         *)
(*   server "v1"  src/unnamed/part_000  validate + mutate, direct patch    *)
(*                construction (createPatch)                               *)
(*   server "v2"  src/v2/webhook.go     mutate only, diff-based patch,     *)
(*                with the QoS store of src/unnamed/part_001               *)
(*                                                                         *)
(* Strings the code lower-cases are sequences of one-character strings, so *)
(* that strings.ToLower is computed.  int64 values are four 16-bit limbs,  *)
(* least significant first, in two's complement, so that Go's wrapping     *)
(* arithmetic is computed at its real width.                               *)
(***************************************************************************)
EXTENDS Integers, Sequences, FiniteSets, TLC

(***************************************************************************)
(* int64                                                                   *)
(***************************************************************************)
Base == 2^16

RECURSIVE MulCarry(_, _, _)
\* limbs of a*k + c, cut to Len(a) limbs (the carry out of the top is lost)
MulCarry(a, k, c) ==
  IF a = <<>> THEN <<>>
  ELSE LET p == Head(a) * k + c
       IN  <<p % Base>> \o MulCarry(Tail(a), k, p \div Base)

RECURSIVE DivFrom(_, _, _, _)
\* unsigned quotient of the limbs 1..i of a by d, with r carried in from above
DivFrom(a, d, i, r) ==
  IF i = 0 THEN <<>>
  ELSE LET n == r * Base + a[i]
       IN  DivFrom(a, d, i - 1, n % d) \o <<n \div d>>

I64(n) == <<n % Base, n \div Base, 0, 0>>          \* 0 <= n < 2^31
I64IsNeg(a) == a[4] >= Base \div 2
I64Neg(a) == MulCarry([i \in 1..Len(a) |-> Base - 1 - a[i]], 1, 1)
\* Go's a * k on int64: wraps modulo 2^64
I64Mul(a, k) == MulCarry(a, k, 0)
\* Go's a / d on int64, d > 0: truncates toward zero
I64Div(a, d) ==
  IF I64IsNeg(a) THEN I64Neg(DivFrom(I64Neg(a), d, Len(a), 0))
  ELSE DivFrom(a, d, Len(a), 0)

(***************************************************************************)
(* strings.ToLower                                                         *)
(***************************************************************************)
Upper == <<"A","B","C","D","E","F","G","H","I","J","K","L","M",
           "N","O","P","Q","R","S","T","U","V","W","X","Y","Z">>
Lower == <<"a","b","c","d","e","f","g","h","i","j","k","l","m",
           "n","o","p","q","r","s","t","u","v","w","x","y","z">>
LowerChar(c) ==
  IF \E i \in 1..26 : Upper[i] = c
  THEN Lower[CHOOSE i \in 1..26 : Upper[i] = c]
  ELSE c
ToLower(s) == [i \in 1..Len(s) |-> LowerChar(s[i])]

(***************************************************************************)
(* Constants of the program                                                *)
(***************************************************************************)
ignoredNamespaces == <<"kube-system", "kube-public">>

admissionWebhookAnnotationValidateKey == "admission-webhook-example.qikqiak.com/validate"
admissionWebhookAnnotationMutateKey   == "admission-webhook-example.qikqiak.com/mutate"
admissionWebhookAnnotationStatusKey   == "admission-webhook-example.qikqiak.com/status"

requiredLabels ==
  <<"app.kubernetes.io/name", "app.kubernetes.io/instance",
    "app.kubernetes.io/version", "app.kubernetes.io/component",
    "app.kubernetes.io/part-of", "app.kubernetes.io/managed-by">>

\* the values the policy switch names, and the status marker
sN       == <<"n">>
sNo      == <<"n","o">>
sFalse   == <<"f","a","l","s","e">>
sOff     == <<"o","f","f">>
sEmpty   == <<>>
sMutated == <<"m","u","t","a","t","e","d">>

(***************************************************************************)
(* Go maps.  A map is [nil, kv]: a nil map reads as empty.                 *)
(***************************************************************************)
NilMap == [nil |-> TRUE, kv |-> <<>>]
MkMap(f) == [nil |-> FALSE, kv |-> f]
Has(m, k) == k \in DOMAIN m.kv
\* m[k] of a map of strings: the zero value "" for a missing key
Get(m, k) == IF Has(m, k) THEN m.kv[k] ELSE sEmpty

(***************************************************************************)
(* Policy gate (v1): admissionRequired / mutationRequired /                *)
(* validationRequired.  metadata is [namespace, annotations, labels].      *)
(***************************************************************************)
\* admissionRequired comparing the annotation as written, without ToLower
admissionRequiredCaseSensitive(ignoredList, admissionAnnotationKey, metadata) ==
  IF \E i \in DOMAIN ignoredList : metadata.namespace = ignoredList[i]
  THEN FALSE
  ELSE Get(metadata.annotations, admissionAnnotationKey) \notin {sN, sNo, sFalse, sOff}

admissionRequired(ignoredList, admissionAnnotationKey, metadata) ==
  IF \E i \in DOMAIN ignoredList : metadata.namespace = ignoredList[i]
  THEN FALSE
  ELSE ToLower(Get(metadata.annotations, admissionAnnotationKey))
         \notin {sN, sNo, sFalse, sOff}

mutationRequired(ignoredList, metadata) ==
  LET required == admissionRequired(ignoredList, admissionWebhookAnnotationMutateKey, metadata)
      status   == Get(metadata.annotations, admissionWebhookAnnotationStatusKey)
  IN  IF ToLower(status) = sMutated THEN FALSE ELSE required

validationRequired(ignoredList, metadata) ==
  admissionRequired(ignoredList, admissionWebhookAnnotationValidateKey, metadata)

(***************************************************************************)
(* Admission responses.  Result and Patch are pointers/slices in the code: *)
(* "set" is FALSE for nil.  A message is [text, kind]: the text, and the   *)
(* kind the unsupported-kind message is formatted with.                    *)
(***************************************************************************)
NoMessage == [text |-> "", kind |-> ""]
NoResult  == [set |-> FALSE, Message |-> NoMessage, Reason |-> ""]
NoPatch   == [set |-> FALSE, ops |-> <<>>]

\* &AdmissionResponse{Result: &metav1.Status{Message: msg}}
ResultMessage(msg) ==
  [UID |-> "", Allowed |-> FALSE,
   Result |-> [set |-> TRUE, Message |-> msg, Reason |-> ""],
   Patch |-> NoPatch, PatchType |-> ""]

\* &AdmissionResponse{Allowed: true}
AllowedOnly ==
  [UID |-> "", Allowed |-> TRUE, Result |-> NoResult,
   Patch |-> NoPatch, PatchType |-> ""]

\* &AdmissionResponse{Allowed: true, Patch: patchBytes, PatchType: JSONPatch}
AllowedPatch(ops) ==
  [UID |-> "", Allowed |-> TRUE, Result |-> NoResult,
   Patch |-> [set |-> TRUE, ops |-> ops], PatchType |-> "JSONPatch"]

UnmarshalError  == [text |-> "json: cannot unmarshal", kind |-> ""]
MarshalError    == [text |-> "json: unsupported value", kind |-> ""]
NotSupported(k) == [text |-> "Not support for this Kind of resource", kind |-> k]

(***************************************************************************)
(* Patch construction (v1)                                                 *)
(***************************************************************************)
\* the orders in which a range loop may visit the keys of a Go map
KeyOrders(S) ==
  {s \in [1..Cardinality(S) -> S] : \A i, j \in DOMAIN s : i # j => s[i] # s[j]}

RECURSIVE updateAnnotationLoop(_, _, _)
updateAnnotationLoop(target, added, keys) ==
  IF keys = <<>> THEN <<>>
  ELSE LET key   == Head(keys)
           value == added.kv[key]
       IN  IF target.nil \/ Get(target, key) = sEmpty
           THEN <<[op |-> "add", path |-> <<"metadata", "annotations">>,
                   value |-> [t |-> "map", v |-> MkMap(key :> value)]]>>
                \o updateAnnotationLoop(MkMap(<<>>), added, Tail(keys))
           ELSE <<[op |-> "replace", path |-> <<"metadata", "annotations", key>>,
                   value |-> [t |-> "string", v |-> value]]>>
                \o updateAnnotationLoop(target, added, Tail(keys))

\* keyOrder: the order in which the loop visits the keys of added
updateAnnotation(target, added, keyOrder) ==
  updateAnnotationLoop(target, added, keyOrder)

\* A request read from the object is [milli, format]: its MilliValue() and its
\* Format.  A quantity the code builds is [value, scale, format]: value * 10^scale.
NewMilliQuantity(value, format) == [value |-> value, scale |-> -3, format |-> format]
NewQuantity(value, format)      == [value |-> value, scale |-> 0, format |-> format]

\* originalValue.MilliValue() * 90 / 100 on int64
ninetyPercentValue(milli) == I64Div(I64Mul(milli, 90), 100)

RECURSIVE reduceRequests(_, _, _)
\* the inner loop for the container at (0-based) index i
reduceRequests(i, requests, names) ==
  IF names = <<>> THEN <<>>
  ELSE LET resourceName == Head(names)
           quantity     == requests[resourceName]
       IN  <<[op |-> "replace",
              path |-> <<"spec", "template", "spec", "containers", i,
                         "resources", "requests", ToLower(resourceName)>>,
              value |-> [t |-> "quantity",
                         v |-> NewMilliQuantity(ninetyPercentValue(quantity.milli),
                                                quantity.format)]]>>
           \o reduceRequests(i, requests, Tail(names))

RECURSIVE reduceFrom(_, _, _)
reduceFrom(containers, order, i) ==
  IF i > Len(containers) THEN <<>>
  ELSE reduceRequests(i - 1, containers[i].requests, order[i])
       \o reduceFrom(containers, order, i + 1)

\* order[i]: the order in which the loop visits container i's requests
applyResourceReduction(containers, order) == reduceFrom(containers, order, 1)

createPatch(availableAnnotations, annotations, containers, keyOrder, order) ==
  updateAnnotation(availableAnnotations, annotations, keyOrder)
  \o applyResourceReduction(containers, order)

\* the iteration orders a run of createPatch may take over these containers
Orders(containers) ==
  {o \in [1..Len(containers) -> UNION {KeyOrders(DOMAIN containers[i].requests) :
                                          i \in 1..Len(containers)}] :
     \A i \in 1..Len(containers) : o[i] \in KeyOrders(DOMAIN containers[i].requests)}

(***************************************************************************)
(* validate and mutate (v1).  r is the AdmissionRequest                    *)
(* [uid, kind, operation, object, oldObject]; object and oldObject are     *)
(* [valid, obj]: whether the raw bytes unmarshal, and the decoded object.  *)
(***************************************************************************)
\* as updateLabels tests a label: an empty value counts as missing
labelPresentNonEmpty(availableLabels, rl) ==
  Has(availableLabels, rl) /\ availableLabels.kv[rl] # ""

\* _, ok := availableLabels[rl]
labelPresent(availableLabels, rl) == Has(availableLabels, rl)

validate(r) ==
  IF r.kind \in {"Deployment", "Service"}
  THEN IF ~r.object.valid THEN ResultMessage(UnmarshalError)
       ELSE LET objectMeta      == r.object.obj.meta
                availableLabels == objectMeta.labels
            IN  IF ~validationRequired(ignoredNamespaces, objectMeta)
                THEN AllowedOnly
                ELSE IF \E i \in DOMAIN requiredLabels :
                          ~labelPresent(availableLabels, requiredLabels[i])
                     THEN [UID |-> "", Allowed |-> FALSE,
                           Result |-> [set |-> TRUE, Message |-> NoMessage,
                                       Reason |-> "required labels are not set"],
                           Patch |-> NoPatch, PatchType |-> ""]
                     ELSE [UID |-> "", Allowed |-> TRUE, Result |-> NoResult,
                           Patch |-> NoPatch, PatchType |-> ""]
  ELSE ResultMessage(NotSupported(r.kind))

\* the containers mutate hands to createPatch (nil for a Service)
mutateContainers(r) ==
  IF r.kind = "Deployment" /\ r.object.valid THEN r.object.obj.containers ELSE <<>>

\* order: the map iteration order of the run; marshalErr: json.Marshal fails
mutate(r, order, marshalErr) ==
  IF r.kind \in {"Deployment", "Service"}
  THEN IF ~r.object.valid THEN ResultMessage(UnmarshalError)
       ELSE LET availableAnnotations == NilMap      \* declared, never assigned
                containers  == mutateContainers(r)
                annotations == MkMap(admissionWebhookAnnotationStatusKey :> sMutated)
                patch == createPatch(availableAnnotations, annotations, containers,
                                     <<admissionWebhookAnnotationStatusKey>>, order)
            IN  IF marshalErr THEN ResultMessage(MarshalError)
                ELSE AllowedPatch(patch)
  ELSE ResultMessage(NotSupported(r.kind))

(***************************************************************************)
(* serve (v1).  h is the HTTP request [path, contentType, body, request]:  *)
(* body is "empty", "undecodable" (deserializer.Decode fails), "norequest" *)
(* (a review whose Request is nil) or "review".  The result is the reply:  *)
(* [status, apiVersion, hasResponse, Response].                            *)
(***************************************************************************)
HttpError(code) ==
  [status |-> code, apiVersion |-> "", hasResponse |-> FALSE, Response |-> AllowedOnly]
\* a nil-pointer dereference of ar.Request: the handler panics, nothing is written
Panic == HttpError("panic")
DecodeError == [text |-> "Can't decode body", kind |-> ""]

serve(h, order, marshalErr) ==
  IF h.body = "empty" THEN HttpError("400")
  ELSE IF h.contentType # "application/json" THEN HttpError("415")
  ELSE IF h.body = "undecodable"
       THEN [status |-> "200", apiVersion |-> "admission.k8s.io/v1",
             hasResponse |-> TRUE, Response |-> ResultMessage(DecodeError)]
  ELSE IF h.path \notin {"/mutate", "/validate"}
       THEN [status |-> "200", apiVersion |-> "admission.k8s.io/v1",
             hasResponse |-> FALSE, Response |-> AllowedOnly]
  ELSE IF h.body = "norequest" THEN Panic
  ELSE LET admissionResponse ==
             IF h.path = "/mutate" THEN mutate(h.request, order, marshalErr)
             ELSE validate(h.request)
       IN  [status |-> "200", apiVersion |-> "admission.k8s.io/v1",
            hasResponse |-> TRUE,
            Response |-> [admissionResponse EXCEPT !.UID = h.request.uid]]

(***************************************************************************)
(* The QoS store (part_001).  The store is the QoSpec QoSInst points to;   *)
(* a QoSpec is never written after it is built, so the pointer is modelled *)
(* by the value it points to.                                              *)
(***************************************************************************)
ZeroQoSpec    == [Cpu |-> I64(0), Memory |-> I64(0)]
DefaultQoSpec == [Cpu |-> I64(200), Memory |-> I64(400)]

\* getQoSpec reads QoSInst twice, unsynchronized: once for the test against the
\* empty QoSpec, once for the value it returns
getQoSpecReads(atTest, atReturn) ==
  IF atTest = ZeroQoSpec THEN DefaultQoSpec ELSE atReturn
\* getQoSpec when nothing writes QoSInst meanwhile
getQoSpec(inst) == getQoSpecReads(inst, inst)
\* setQoSpec: the new value of QoSInst
setQoSpec(qoSpec) == qoSpec

(***************************************************************************)
(* v2: mutationRequired, mutateDeploy, mutateQoS, mutate, serve            *)
(***************************************************************************)
mutationRequiredV2(ignoredList, metadata) ==
  IF \E i \in DOMAIN ignoredList : metadata.namespace = ignoredList[i]
  THEN FALSE
  ELSE ToLower(Get(metadata.annotations, admissionWebhookAnnotationMutateKey))
         \notin {sN, sNo, sFalse, sOff, sEmpty}

rCPU    == <<"c","p","u">>
rMemory == <<"m","e","m","o","r","y">>

\* initContainer scaling the memory by 1024 once: KiB instead of MiB
initContainerKiB(cpuRead, memoryRead) ==
  [name |-> "init", image |-> "busybox",
   requests |-> (rCPU :> NewMilliQuantity(cpuRead.Cpu, "DecimalSI")
                 @@ rMemory :> NewQuantity(I64Mul(memoryRead.Memory, 1024), "BinarySI"))]

\* the init container mutateDeploy builds from the two reads of the store
initContainer(cpuRead, memoryRead) ==
  [name |-> "init", image |-> "busybox",
   requests |-> (rCPU :> NewMilliQuantity(cpuRead.Cpu, "DecimalSI")
                 @@ rMemory :> NewQuantity(I64Mul(I64Mul(memoryRead.Memory, 1024), 1024),
                                           "BinarySI"))]

\* the mutated copy of deploy; cpuRead and memoryRead are what the two calls
\* of getQoSpec return
newDeploy(deploy, cpuRead, memoryRead) ==
  IF Len(deploy.initContainers) = 0
  THEN [deploy EXCEPT !.initContainers = <<initContainer(cpuRead, memoryRead)>>]
  ELSE deploy

\* jsondiff.Compare(old, new) of two Deployments that differ at most in their
\* init containers; an empty list is omitted from the JSON (omitempty)
jsondiffCompare(old, new) ==
  IF old.initContainers = new.initContainers THEN <<>>
  ELSE IF Len(old.initContainers) = 0
       THEN <<[op |-> "add", path |-> <<"spec", "template", "spec", "initContainers">>,
               value |-> [t |-> "containers", v |-> new.initContainers]]>>
       ELSE <<[op |-> "replace", path |-> <<"spec", "template", "spec", "initContainers">>,
               value |-> [t |-> "containers", v |-> new.initContainers]]>>

\* mutateDeploy once the store has been read (or not: the reads happen only
\* when an init container is added)
mutateDeployWith(deploy, cpuRead, memoryRead, diffErr, marshalErr) ==
  IF ~mutationRequiredV2(ignoredNamespaces, deploy.meta) THEN AllowedOnly
  ELSE LET patch == jsondiffCompare(deploy, newDeploy(deploy, cpuRead, memoryRead))
       IN  IF diffErr THEN ResultMessage([text |-> "jsondiff: compare", kind |-> ""])
           ELSE IF marshalErr THEN ResultMessage(MarshalError)
           ELSE AllowedPatch(patch)

\* a request served alone: both reads see the same store
mutateDeploy(deploy, inst, diffErr, marshalErr) ==
  mutateDeployWith(deploy, getQoSpec(inst), getQoSpec(inst), diffErr, marshalErr)

\* mutateQoS installing whatever spec the request carries, empty or not
mutateQoSAnySpec(qos, operation, inst) ==
  IF operation = "DELETE" THEN setQoSpec(ZeroQoSpec) ELSE setQoSpec(qos.spec)

\* the new value of QoSInst
mutateQoS(qos, operation, inst) ==
  IF operation = "DELETE" THEN setQoSpec(ZeroQoSpec)
  ELSE IF qos.spec # ZeroQoSpec THEN setQoSpec(qos.spec)
  ELSE inst

\* the raw bytes the QoS branch unmarshals
qosRaw(r) == IF r.operation = "DELETE" THEN r.oldObject ELSE r.object

\* the response of mutate (v2)
mutateV2(r, inst, diffErr, marshalErr) ==
  IF r.kind = "Deployment"
  THEN IF ~r.object.valid THEN ResultMessage(UnmarshalError)
       ELSE mutateDeploy(r.object.obj, inst, diffErr, marshalErr)
  ELSE IF r.kind = "QoS"
  THEN IF ~qosRaw(r).valid THEN ResultMessage(UnmarshalError)
       ELSE AllowedOnly
  ELSE ResultMessage(NotSupported(r.kind))

\* mutate (v2) resetting the store on DELETE before the old object is decoded
mutateV2StoreEager(r, inst) ==
  IF r.kind = "QoS" /\ r.operation = "DELETE" THEN setQoSpec(ZeroQoSpec)
  ELSE IF r.kind = "QoS" /\ qosRaw(r).valid
  THEN mutateQoS(qosRaw(r).obj, r.operation, inst)
  ELSE inst

\* the value of QoSInst after mutate (v2)
mutateV2Store(r, inst) ==
  IF r.kind = "QoS" /\ qosRaw(r).valid
  THEN mutateQoS(qosRaw(r).obj, r.operation, inst)
  ELSE inst

\* the reply of serve (v2)
serveV2(h, inst, diffErr, marshalErr) ==
  IF h.body = "empty" THEN HttpError("400")
  ELSE IF h.contentType # "application/json" THEN HttpError("415")
  ELSE IF h.body = "undecodable"
       THEN [status |-> "200", apiVersion |-> "",
             hasResponse |-> TRUE, Response |-> ResultMessage(DecodeError)]
  ELSE IF h.path # "/mutate"
       THEN [status |-> "200", apiVersion |-> "",
             hasResponse |-> FALSE, Response |-> AllowedOnly]
  ELSE IF h.body = "norequest" THEN Panic
  ELSE [status |-> "200", apiVersion |-> "", hasResponse |-> TRUE,
        Response |-> [mutateV2(h.request, inst, diffErr, marshalErr)
                        EXCEPT !.UID = h.request.uid]]

\* the value of QoSInst after serve (v2)
serveV2Store(h, inst) ==
  IF h.body = "review" /\ h.contentType = "application/json" /\ h.path = "/mutate"
  THEN mutateV2Store(h.request, inst)
  ELSE inst

(***************************************************************************)
(* JSON Patch (RFC 6902) as the API server applies a returned patch to the *)
(* object: [ok, obj], ok FALSE when an operation addresses nothing.        *)
(***************************************************************************)
applyOp(obj, o) ==
  IF o.path = <<"metadata", "annotations">> /\ o.op = "add"
  THEN [ok |-> TRUE, obj |-> [obj EXCEPT !.meta.annotations = o.value.v]]
  ELSE IF Len(o.path) = 3 /\ o.path[2] = "annotations"
  THEN IF Has(obj.meta.annotations, o.path[3])
       THEN [ok |-> TRUE,
             obj |-> [obj EXCEPT !.meta.annotations.kv[o.path[3]] = o.value.v]]
       ELSE [ok |-> FALSE, obj |-> obj]
  ELSE IF Len(o.path) = 8
  THEN LET i == o.path[5] + 1
       IN  IF i \in DOMAIN obj.containers /\ o.path[8] \in DOMAIN obj.containers[i].requests
           THEN [ok |-> TRUE,
                 obj |-> [obj EXCEPT !.containers[i].requests[o.path[8]] =
                                        [milli |-> o.value.v.value,
                                         format |-> o.value.v.format]]]
           ELSE [ok |-> FALSE, obj |-> obj]
  ELSE IF Len(o.path) = 4 /\ o.op = "add"
  THEN [ok |-> TRUE, obj |-> [obj EXCEPT !.initContainers = o.value.v]]
  ELSE [ok |-> FALSE, obj |-> obj]

RECURSIVE applyPatch(_, _)
applyPatch(obj, ops) ==
  IF ops = <<>> THEN [ok |-> TRUE, obj |-> obj]
  ELSE LET first == applyOp(obj, Head(ops))
       IN  IF first.ok THEN applyPatch(first.obj, Tail(ops)) ELSE first

(***************************************************************************)
(* Inputs: the requests the servers are given, in families.                *)
(***************************************************************************)
MaxContainers == 2      \* containers of a Deployment
MaxRequests   == 3      \* requests the v2 server handles in one run
MaxConfigs    == 3      \* QoS requests handled while the servers run concurrently

Meta(ns, annotations, labels) ==
  [namespace |-> ns, annotations |-> annotations, labels |-> labels]
Deployment(meta, containers, initContainers) ==
  [meta |-> meta, containers |-> containers, initContainers |-> initContainers]
Service(meta) == [meta |-> meta, containers |-> <<>>, initContainers |-> <<>>]
Raw(obj)  == [valid |-> TRUE, obj |-> obj]
Malformed == [valid |-> FALSE, obj |-> [garbage |-> TRUE]]
AdmissionRequest(uid, kind, operation, object, oldObject) ==
  [uid |-> uid, kind |-> kind, operation |-> operation,
   object |-> object, oldObject |-> oldObject]
NoAdmissionRequest == AdmissionRequest("", "", "", Malformed, Malformed)
Http(path, contentType, body, request) ==
  [path |-> path, contentType |-> contentType, body |-> body, request |-> request]
Review(path, request) == Http(path, "application/json", "review", request)
NoHttp == Http("", "", "none", NoAdmissionRequest)

Namespaces == {"default", "kube-system", "kube-public"}

sYes == <<"y","e","s">>
\* annotation values: the opt-out words in several cases, empty, and others
AnnotationValues ==
  {sEmpty, sN, sNo, sFalse, sOff, <<"N","o">>, <<"O","F","F">>, <<"F","a","l","s","e">>,
   sYes, <<"n","o","n","e">>}
StatusValues == {sMutated, <<"M","u","t","a","t","e","d">>, <<"d","o","n","e">>}

\* annotation maps over the mutate and status keys
GateAnnotations ==
  {NilMap, MkMap(<<>>)}
  \cup {MkMap(admissionWebhookAnnotationMutateKey :> m) : m \in AnnotationValues}
  \cup {MkMap(admissionWebhookAnnotationStatusKey :> st) : st \in StatusValues}
  \cup {MkMap(admissionWebhookAnnotationMutateKey :> m
              @@ admissionWebhookAnnotationStatusKey :> st) :
          m \in AnnotationValues, st \in StatusValues}
ValidateAnnotations ==
  {NilMap} \cup {MkMap(admissionWebhookAnnotationValidateKey :> v) : v \in AnnotationValues}

RequiredSet == {requiredLabels[i] : i \in DOMAIN requiredLabels}
AllLabels == MkMap([k \in RequiredSet |-> "x"])
\* every label map over the required keys, with empty and non-empty values
LabelMaps ==
  {NilMap} \cup {MkMap(f) : f \in UNION {[S -> {"", "x"}] : S \in SUBSET RequiredSet}}
\* label maps with an extra key, and one with all but one required key
FewLabelMaps ==
  {NilMap, AllLabels, MkMap([k \in RequiredSet \cup {"team"} |-> "x"]),
   MkMap([k \in RequiredSet \ {"app.kubernetes.io/part-of"} |-> "x"])}

\* resource requests as the object states them: [milli, format]
rHugepages == <<"h","u","g","e","p","a","g","e","s","-","2","M","i">>
cpuRequests ==
  {[milli |-> I64(100), format |-> "DecimalSI"],                      \* 100m
   [milli |-> I64(101), format |-> "DecimalSI"],                      \* 101m
   [milli |-> I64(250), format |-> "DecimalSI"]}                      \* 250m
memoryRequests ==
  {[milli |-> <<0, 0, 250, 0>>, format |-> "BinarySI"],               \* 1Gi
   [milli |-> <<0, 0, 0, 4000>>, format |-> "BinarySI"]}              \* 1Pi
RequestMaps ==
  {<<>>}
  \cup {rCPU :> c : c \in cpuRequests}
  \cup {rMemory :> m : m \in memoryRequests}
  \cup {rCPU :> c @@ rMemory :> m : c \in cpuRequests, m \in memoryRequests}
  \cup {rHugepages :> [milli |-> <<0, 32000, 0, 0>>, format |-> "BinarySI"]}  \* 2Mi
Containers == {[name |-> "app", image |-> "nginx", requests |-> rq] : rq \in RequestMaps}
ContainerLists == UNION {[1..n -> Containers] : n \in 0..MaxContainers}
OneInit == <<[name |-> "setup", image |-> "busybox", requests |-> <<>>]>>

PlainMeta == Meta("default", NilMap, AllLabels)
OptIn     == MkMap(admissionWebhookAnnotationMutateKey :> sYes)

\* serve decoded the body into a review with a request
Dispatched(h) == h.body = "review" /\ h.contentType = "application/json"

\* requests of the v1 server
V1Requests ==
  \* validate: every label map, both kinds
  {Review("/validate", AdmissionRequest("uid-1", k, "CREATE",
                         Raw(Service(Meta("default", NilMap, l))), Malformed)) :
     k \in {"Deployment", "Service"}, l \in LabelMaps}
  \* validate: every namespace and validate annotation
  \cup {Review("/validate", AdmissionRequest("uid-2", "Deployment", "CREATE",
                         Raw(Deployment(Meta(ns, a, l), <<>>, <<>>)), Malformed)) :
     ns \in Namespaces, a \in ValidateAnnotations, l \in FewLabelMaps}
  \* both paths: every namespace, mutate annotation and status
  \cup {Review(p, AdmissionRequest("uid-1", "Deployment", "UPDATE",
                         Raw(Deployment(Meta(ns, a, AllLabels),
                                        <<[name |-> "app", image |-> "nginx",
                                           requests |-> rCPU :> [milli |-> I64(100),
                                                                 format |-> "DecimalSI"]]>>,
                                        <<>>)), Malformed)) :
     p \in {"/mutate", "/validate"}, ns \in Namespaces, a \in GateAnnotations}
  \* mutate: every container list
  \cup {Review("/mutate", AdmissionRequest("uid-2", "Deployment", "CREATE",
                         Raw(Deployment(Meta("default", OptIn, AllLabels), cs, <<>>)),
                         Malformed)) : cs \in ContainerLists}
  \* other kinds, malformed objects, other paths, and what serve refuses
  \cup {Review(p, AdmissionRequest(u, k, "CREATE", o, Malformed)) :
     p \in {"/mutate", "/validate", "/healthz"}, u \in {"uid-1", "uid-2"},
     k \in {"Deployment", "Service", "ConfigMap"},
     o \in {Malformed, Raw(Service(PlainMeta))}}
  \cup {Http(p, ct, b, NoAdmissionRequest) :
     p \in {"/mutate", "/validate", "/healthz"},
     ct \in {"application/json", "text/plain"},
     b \in {"empty", "undecodable", "norequest"}}

QoS(cpu, memory) == [spec |-> [Cpu |-> cpu, Memory |-> memory]]
QoSObjects ==
  {QoS(I64(500), I64(800)),
   QoS(I64(0), I64(5)),              \* cpu omitted: a non-empty spec
   QoS(I64(100), <<0, 0, 2048, 0>>), \* memory 2^43 MiB
   QoS(I64(0), I64(0))}              \* an empty spec

\* requests of the v2 server
V2Requests ==
  {Review("/mutate", AdmissionRequest("uid-1", "QoS", op, Raw(q), Malformed)) :
     op \in {"CREATE"}, q \in QoSObjects}
  \cup {Review("/mutate", AdmissionRequest("uid-1", "QoS", "UPDATE", Malformed, Malformed)),
        Review("/mutate", AdmissionRequest("uid-1", "QoS", "DELETE", Malformed,
                                           Raw(QoS(I64(500), I64(800))))),
        Review("/mutate", AdmissionRequest("uid-1", "QoS", "DELETE",
                                           Raw(QoS(I64(500), I64(800))), Malformed))}
  \cup {Review("/mutate", AdmissionRequest("uid-2", "Deployment", "CREATE",
                            Raw(Deployment(Meta(ns, a, AllLabels), <<>>, ic)), Malformed)) :
     ns \in {"default", "kube-system"}, a \in {NilMap, OptIn}, ic \in {<<>>}}
  \cup {Review("/mutate", AdmissionRequest("uid-2", "Deployment", "CREATE",
                            Raw(Deployment(Meta("default", OptIn, AllLabels), <<>>, OneInit)),
                            Malformed)),
        Review("/mutate", AdmissionRequest("uid-2", "Deployment", "CREATE",
                                           Malformed, Malformed)),
        Review("/mutate", AdmissionRequest("uid-2", "ConfigMap", "CREATE",
                                           Raw(Service(PlainMeta)), Malformed)),
        Review("/validate", AdmissionRequest("uid-2", "QoS", "CREATE",
                                             Raw(QoS(I64(500), I64(800))), Malformed)),
        Http("/mutate", "application/json", "undecodable", NoAdmissionRequest)}

(***************************************************************************)
(* The state machine                                                       *)
(***************************************************************************)
VARIABLES
  server,    \* "v1", "v2", or "v2c": v2 with its requests handled concurrently
  pc,        \* v1: "idle", "served", "resubmitted", "reserved"; v2: "idle";
             \* v2c: where the Deployment request's goroutine stands
  req,       \* the HTTP request last received (v2c: the Deployment request)
  resp,      \* the reply to it
  QoSInst,   \* the store
  history,   \* v2: the requests handled so far, oldest first
  reads,     \* v2c: what the goroutine's reads of QoSInst returned
  stored,    \* v2c: the values QoSInst held while the Deployment request ran
  configs    \* v2c: the QoS requests handled so far

vars == <<server, pc, req, resp, QoSInst, history, reads, stored, configs>>

NoReply == HttpError("none")
NoReads == [cpuTest |-> ZeroQoSpec, cpu |-> ZeroQoSpec,
            memoryTest |-> ZeroQoSpec, memory |-> ZeroQoSpec]

InitWith(s) ==
  /\ server = s /\ pc = "idle" /\ req = NoHttp /\ resp = NoReply
  /\ QoSInst = ZeroQoSpec /\ history = <<>>
  /\ reads = NoReads /\ stored = {} /\ configs = 0

Init == InitWith("v1") \/ InitWith("v2")

\* the iteration orders of the run that serves h
OrdersOf(h) == Orders(mutateContainers(h.request))

\* v1 handles a request
ServeV1 ==
  /\ server = "v1" /\ pc = "idle"
  /\ \E h \in V1Requests, marshalErr \in BOOLEAN :
       \E order \in OrdersOf(h) :
         /\ req' = h
         /\ resp' = serve(h, order, marshalErr)
  /\ pc' = "served"
  /\ UNCHANGED <<server, QoSInst, history, reads, stored, configs>>

\* the API server applies the patch v1 returned and later submits the patched
\* object again (an update of the object)
Resubmit ==
  /\ server = "v1" /\ pc = "served"
  /\ Dispatched(req) /\ resp.hasResponse /\ resp.Response.Patch.set
  /\ LET patched == applyPatch(req.request.object.obj, resp.Response.Patch.ops)
     IN  /\ patched.ok
         /\ req' = [req EXCEPT !.request.object.obj = patched.obj,
                               !.request.operation = "UPDATE"]
  /\ pc' = "resubmitted"
  /\ UNCHANGED <<server, resp, QoSInst, history, reads, stored, configs>>

\* v1 handles the resubmitted request
ServeAgainV1 ==
  /\ server = "v1" /\ pc = "resubmitted"
  /\ \E marshalErr \in BOOLEAN :
       \E order \in OrdersOf(req) : resp' = serve(req, order, marshalErr)
  /\ pc' = "reserved"
  /\ UNCHANGED <<server, req, QoSInst, history, reads, stored, configs>>

\* v2 handles a request
ServeV2 ==
  /\ server = "v2" /\ Len(history) < MaxRequests
  /\ \E h \in V2Requests, diffErr \in BOOLEAN, marshalErr \in BOOLEAN :
       /\ req' = h
       /\ resp' = serveV2(h, QoSInst, diffErr, marshalErr)
       /\ QoSInst' = serveV2Store(h, QoSInst)
       /\ history' = Append(history, h)
  /\ UNCHANGED <<server, pc, reads, stored, configs>>

Next == ServeV1 \/ Resubmit \/ ServeAgainV1 \/ ServeV2

Spec == Init /\ [][Next]_vars

(***************************************************************************)
(* v2 with requests handled concurrently (net/http runs each request in    *)
(* its own goroutine; nothing guards QoSInst).  One Deployment request     *)
(* runs mutateDeploy step by step while QoS requests are handled; each     *)
(* read and each write of the pointer QoSInst is one step.                 *)
(***************************************************************************)
ConcDeployments ==
  {Review("/mutate", AdmissionRequest("uid-2", "Deployment", "CREATE",
                       Raw(Deployment(Meta("default", OptIn, AllLabels), <<>>, ic)),
                       Malformed)) : ic \in {<<>>, OneInit}}
ConcConfigs == {h \in V2Requests : h.request.kind = "QoS"}

InitConc == InitWith("v2c")

\* a QoS request is handled: mutateQoS writes QoSInst
ConfigRequest ==
  /\ server = "v2c" /\ configs < MaxConfigs
  /\ \E h \in ConcConfigs : QoSInst' = serveV2Store(h, QoSInst)
  /\ configs' = configs + 1
  /\ stored' = IF pc \in {"idle", "done"} THEN stored ELSE stored \cup {QoSInst'}
  /\ UNCHANGED <<server, pc, req, resp, history, reads>>

\* serve receives the Deployment request and mutateDeploy runs up to line 128
DeployStart ==
  /\ server = "v2c" /\ pc = "idle"
  /\ \E h \in ConcDeployments :
       /\ req' = h
       /\ pc' = IF Len(h.request.object.obj.initContainers) = 0
                THEN "cpuTest" ELSE "respond"
  /\ stored' = {QoSInst}
  /\ UNCHANGED <<server, resp, QoSInst, history, reads, configs>>

\* line 140, getQoSpec: *QoSInst == QoSpec{}
CpuTest ==
  /\ server = "v2c" /\ pc = "cpuTest"
  /\ reads' = [reads EXCEPT !.cpuTest = QoSInst]
  /\ pc' = "cpuReturn"
  /\ UNCHANGED <<server, req, resp, QoSInst, history, stored, configs>>

\* line 140, getQoSpec: the default, or QoSInst read again
CpuReturn ==
  /\ server = "v2c" /\ pc = "cpuReturn"
  /\ reads' = [reads EXCEPT !.cpu = getQoSpecReads(reads.cpuTest, QoSInst)]
  /\ pc' = "memoryTest"
  /\ UNCHANGED <<server, req, resp, QoSInst, history, stored, configs>>

\* line 141, getQoSpec: *QoSInst == QoSpec{}
MemoryTest ==
  /\ server = "v2c" /\ pc = "memoryTest"
  /\ reads' = [reads EXCEPT !.memoryTest = QoSInst]
  /\ pc' = "memoryReturn"
  /\ UNCHANGED <<server, req, resp, QoSInst, history, stored, configs>>

\* line 141, getQoSpec: the default, or QoSInst read again
MemoryReturn ==
  /\ server = "v2c" /\ pc = "memoryReturn"
  /\ reads' = [reads EXCEPT !.memory = getQoSpecReads(reads.memoryTest, QoSInst)]
  /\ pc' = "respond"
  /\ UNCHANGED <<server, req, resp, QoSInst, history, stored, configs>>

\* the rest of mutateDeploy, and serve's reply
DeployRespond ==
  /\ server = "v2c" /\ pc = "respond"
  /\ resp' = [status |-> "200", apiVersion |-> "", hasResponse |-> TRUE,
              Response |-> [mutateDeployWith(req.request.object.obj,
                                             reads.cpu, reads.memory, FALSE, FALSE)
                              EXCEPT !.UID = req.request.uid]]
  /\ pc' = "done"
  /\ UNCHANGED <<server, req, QoSInst, history, reads, stored, configs>>

NextConc ==
  \/ ConfigRequest \/ DeployStart \/ CpuTest \/ CpuReturn
  \/ MemoryTest \/ MemoryReturn \/ DeployRespond

SpecConc == InitConc /\ [][NextConc]_vars

(***************************************************************************)
(* What the claims speak of, stated apart from the handlers                *)
(***************************************************************************)
ServedV1(path) ==
  server = "v1" /\ pc \in {"served", "reserved"} /\ Dispatched(req) /\ req.path = path
ServedV2 == server = "v2" /\ history # <<>> /\ Dispatched(req) /\ req.path = "/mutate"

Exempt(ns) == ns \in {"kube-system", "kube-public"}
\* two strings equal up to the case of their letters
EqualFold(a, b) ==
  Len(a) = Len(b) /\ \A i \in 1..Len(a) : LowerChar(a[i]) = LowerChar(b[i])
OptOutWord(v) == \E w \in {sN, sNo, sFalse, sOff} : EqualFold(v, w)
\* the value of an annotation, empty when the map or the key is absent
AnnotationOf(meta, key) ==
  IF key \in DOMAIN meta.annotations.kv THEN meta.annotations.kv[key] ELSE <<>>
\* the request's object decodes as a kind in kinds
Decodes(h, kinds) == h.request.kind \in kinds /\ h.request.object.valid
\* the response reports a failure of the patch computation or serialization
PatchFailure(r) ==
  r.Result.Message.text \in {"json: unsupported value", "jsondiff: compare"}

(***************************************************************************)
(* C1: a validate request on a Deployment or Service that decodes, is not  *)
(* in an exempt namespace and has not opted out is answered allowed=true   *)
(* with no result iff each of the six required label keys is present in    *)
(* the label map, whatever its value; otherwise allowed=false with reason  *)
(* "required labels are not set" and no patch.                             *)
(***************************************************************************)
C1_Case ==
  /\ ServedV1("/validate") /\ Decodes(req, {"Deployment", "Service"})
  /\ ~Exempt(req.request.object.obj.meta.namespace)
  /\ ~OptOutWord(AnnotationOf(req.request.object.obj.meta,
                              admissionWebhookAnnotationValidateKey))

C1_AllPresent ==
  \A k \in {"app.kubernetes.io/name", "app.kubernetes.io/instance",
             "app.kubernetes.io/version", "app.kubernetes.io/component",
             "app.kubernetes.io/part-of", "app.kubernetes.io/managed-by"} :
     k \in DOMAIN req.request.object.obj.meta.labels.kv

C1_RequiredLabels ==
  C1_Case =>
    /\ resp.hasResponse
    /\ (resp.Response.Allowed /\ ~resp.Response.Result.set) <=> C1_AllPresent
    /\ ~C1_AllPresent =>
         /\ ~resp.Response.Allowed
         /\ resp.Response.Result.set
         /\ resp.Response.Result.Reason = "required labels are not set"
         /\ ~resp.Response.Patch.set

\* all six keys present, one with an empty value, and the request allowed
C1_Witness ==
  /\ C1_Case /\ C1_AllPresent
  /\ \E k \in DOMAIN req.request.object.obj.meta.labels.kv :
        req.request.object.obj.meta.labels.kv[k] = ""
  /\ resp.Response.Allowed

(***************************************************************************)
(* C2: for an object in an exempt namespace (kube-system, kube-public)     *)
(* both validate and mutate answer allowed=true with no patch, whatever    *)
(* the object holds.  (A reported failure of the patch serialization is    *)
(* left aside: the statement is about the policy.)                         *)
(***************************************************************************)
C2_Case ==
  /\ \/ ServedV1("/validate") /\ Decodes(req, {"Deployment", "Service"})
     \/ ServedV1("/mutate") /\ Decodes(req, {"Deployment", "Service"})
     \/ ServedV2 /\ Decodes(req, {"Deployment"})
  /\ Exempt(req.request.object.obj.meta.namespace)
  /\ ~PatchFailure(resp.Response)

C2_ExemptShortCircuit ==
  C2_Case => resp.Response.Allowed /\ ~resp.Response.Patch.set

(***************************************************************************)
(* C3: after any series of requests the store's get() is {200, 400} when   *)
(* no QoS create/update with a non-empty spec was handled since start-up   *)
(* or since the last decoded QoS DELETE, and otherwise the spec of the     *)
(* last QoS create/update with a non-empty spec; nothing else changes it.  *)
(***************************************************************************)
C3_IsDelete(h) ==
  /\ Dispatched(h) /\ h.path = "/mutate" /\ h.request.kind = "QoS"
  /\ h.request.operation = "DELETE" /\ h.request.oldObject.valid
C3_IsSet(h) ==
  /\ Dispatched(h) /\ h.path = "/mutate" /\ h.request.kind = "QoS"
  /\ h.request.operation # "DELETE" /\ h.request.object.valid
  /\ \/ h.request.object.obj.spec.Cpu # <<0, 0, 0, 0>>
     \/ h.request.object.obj.spec.Memory # <<0, 0, 0, 0>>

RECURSIVE C3_Expected(_)
C3_Expected(h) ==
  IF h = <<>> THEN [Cpu |-> <<200, 0, 0, 0>>, Memory |-> <<400, 0, 0, 0>>]
  ELSE IF C3_IsDelete(h[Len(h)])
       THEN [Cpu |-> <<200, 0, 0, 0>>, Memory |-> <<400, 0, 0, 0>>]
  ELSE IF C3_IsSet(h[Len(h)]) THEN h[Len(h)].request.object.obj.spec
  ELSE C3_Expected(SubSeq(h, 1, Len(h) - 1))

C3_StoreFollowsHistory ==
  server = "v2" => getQoSpec(QoSInst) = C3_Expected(history)

\* a spec installed, then a DELETE, then a request of another kind
C3_Witness ==
  /\ server = "v2" /\ Len(history) = 3
  /\ C3_IsSet(history[1]) /\ C3_IsDelete(history[2])
  /\ history[3].request.kind = "Deployment"
  /\ getQoSpec(QoSInst) = [Cpu |-> <<200, 0, 0, 0>>, Memory |-> <<400, 0, 0, 0>>]

(***************************************************************************)
(* Integers of any size, for what a claim states in exact arithmetic:      *)
(* [neg, mag], mag in six 16-bit limbs.                                    *)
(***************************************************************************)
RECURSIVE RemFrom(_, _, _, _)
\* the remainder of the limbs 1..i of a by d, with r carried in from above
RemFrom(a, d, i, r) ==
  IF i = 0 THEN r ELSE RemFrom(a, d, i - 1, (r * 65536 + a[i]) % d)

ZOf(a) ==
  IF a[4] >= 32768 THEN [neg |-> TRUE, mag |-> I64Neg(a) \o <<0, 0>>]
  ELSE [neg |-> FALSE, mag |-> a \o <<0, 0>>]
ZZero(mag) == \A i \in DOMAIN mag : mag[i] = 0
ZMul(z, k) ==
  LET m == MulCarry(z.mag, k, 0) IN [neg |-> z.neg /\ ~ZZero(m), mag |-> m]
\* floor(z / d), d > 0
ZFloorDiv(z, d) ==
  LET q == DivFrom(z.mag, d, Len(z.mag), 0)
      r == RemFrom(z.mag, d, Len(z.mag), 0)
  IN  IF ~z.neg THEN [neg |-> FALSE, mag |-> q]
      ELSE IF r = 0 THEN [neg |-> ~ZZero(q), mag |-> q]
      ELSE [neg |-> TRUE, mag |-> MulCarry(q, 1, 1)]
\* z modulo 2^64, as an int64
ZWrap(z) ==
  IF z.neg THEN SubSeq(I64Neg(z.mag), 1, 4) ELSE SubSeq(z.mag, 1, 4)

(***************************************************************************)
(* C4: with QoS requests handled concurrently, the (cpu, memory) pair a    *)
(* Deployment request puts on the injected init container is the           *)
(* effective store value of one single instant of that request: never the  *)
(* cpu of one spec with the memory of another, and get() never returns     *)
(* the unset sentinel {0, 0}.                                              *)
(***************************************************************************)
C4_Effective(v) ==
  IF v = [Cpu |-> <<0, 0, 0, 0>>, Memory |-> <<0, 0, 0, 0>>]
  THEN [Cpu |-> <<200, 0, 0, 0>>, Memory |-> <<400, 0, 0, 0>>] ELSE v

C4_Injected ==
  /\ server = "v2c" /\ pc = "done"
  /\ resp.Response.Patch.set /\ resp.Response.Patch.ops # <<>>

C4_OneSnapshot ==
  C4_Injected =>
    LET requests == resp.Response.Patch.ops[1].value.v[1].requests
    IN  /\ \E v \in stored :
             /\ requests[rCPU].value = C4_Effective(v).Cpu
             /\ requests[rMemory].value =
                  ZWrap(ZMul(ZMul(ZOf(C4_Effective(v).Memory), 1024), 1024))
        /\ reads.cpu # [Cpu |-> <<0, 0, 0, 0>>, Memory |-> <<0, 0, 0, 0>>]
        /\ reads.memory # [Cpu |-> <<0, 0, 0, 0>>, Memory |-> <<0, 0, 0, 0>>]

(***************************************************************************)
(* C5: for every container at index i and every request it declares with   *)
(* milli-value m, the mutate patch holds exactly one replace at            *)
(* /spec/template/spec/containers/<i>/resources/requests/<lower-cased      *)
(* name> whose value is floor(m*90/100) milli-units in the original        *)
(* format, and no reduction for a pair the object does not declare.        *)
(***************************************************************************)
C5_Case ==
  /\ ServedV1("/mutate") /\ Decodes(req, {"Deployment"})
  /\ resp.hasResponse /\ resp.Response.Patch.set

C5_Path(i, name) ==
  <<"spec", "template", "spec", "containers", i - 1, "resources", "requests",
    [j \in 1..Len(name) |-> LowerChar(name[j])]>>

C5_Reduction ==
  C5_Case =>
    LET ops        == resp.Response.Patch.ops
        containers == req.request.object.obj.containers
    IN  /\ \A i \in DOMAIN containers : \A name \in DOMAIN containers[i].requests :
             LET hits == {k \in DOMAIN ops : ops[k].path = C5_Path(i, name)}
             IN  /\ Cardinality(hits) = 1
                 /\ \A k \in hits :
                      /\ ops[k].op = "replace"
                      /\ ops[k].value.v.scale = -3
                      /\ ops[k].value.v.format = containers[i].requests[name].format
                      /\ ZOf(ops[k].value.v.value) =
                           ZFloorDiv(ZMul(ZOf(containers[i].requests[name].milli), 90), 100)
        /\ \A k \in DOMAIN ops :
             Len(ops[k].path) = 8 =>
               \E i \in DOMAIN containers : \E name \in DOMAIN containers[i].requests :
                  ops[k].path = C5_Path(i, name)

(***************************************************************************)
(* C6: a mutate request for a Deployment with zero init containers,        *)
(* handled while the store's effective value is {cpu c, memory m}, is      *)
(* answered allowed=true, patchType JSONPatch, with a patch that adds      *)
(* exactly one init container named "init" requesting c milli-CPU          *)
(* (decimal) and m*1024*1024 bytes of memory (binary); a Deployment that   *)
(* has init containers gets none added.  C6_AsClaimed is the claim as      *)
(* written; C6_InitContainer is the claim amended: the Deployment is in a  *)
(* non-exempt namespace and its mutate annotation opts in, and the bytes   *)
(* are m*1024*1024 as int64 arithmetic gives it (modulo 2^64).             *)
(***************************************************************************)
C6_Case ==
  ServedV2 /\ Decodes(req, {"Deployment"}) /\ ~PatchFailure(resp.Response)
\* the effective store value while the last request was handled
C6_Store == C3_Expected(SubSeq(history, 1, Len(history) - 1))
C6_OptedIn ==
  LET meta == req.request.object.obj.meta
      v    == AnnotationOf(meta, admissionWebhookAnnotationMutateKey)
  IN  ~Exempt(meta.namespace) /\ ~OptOutWord(v) /\ v # <<>>

C6_AddsInit ==
  /\ resp.Response.Allowed /\ resp.Response.PatchType = "JSONPatch"
  /\ resp.Response.Patch.set /\ Len(resp.Response.Patch.ops) = 1
  /\ LET o == resp.Response.Patch.ops[1]
     IN  /\ o.op = "add" /\ o.path = <<"spec", "template", "spec", "initContainers">>
         /\ Len(o.value.v) = 1
         /\ o.value.v[1].name = "init"
         /\ o.value.v[1].requests[rCPU] =
              [value |-> C6_Store.Cpu, scale |-> -3, format |-> "DecimalSI"]
         /\ o.value.v[1].requests[rMemory].scale = 0
         /\ o.value.v[1].requests[rMemory].format = "BinarySI"
\* the bytes of memory the added init container requests
C6_Bytes == resp.Response.Patch.ops[1].value.v[1].requests[rMemory].value
C6_AddsNone ==
  \A k \in DOMAIN resp.Response.Patch.ops :
     resp.Response.Patch.ops[k].path # <<"spec", "template", "spec", "initContainers">>

C6_ExactBytes   == ZOf(C6_Bytes) = ZMul(ZMul(ZOf(C6_Store.Memory), 1024), 1024)
C6_WrappedBytes == C6_Bytes = ZWrap(ZMul(ZMul(ZOf(C6_Store.Memory), 1024), 1024))

C7_TouchesStatus(o) ==
  \/ /\ o.path = <<"metadata", "annotations">>
     /\ o.op = "add"
     /\ admissionWebhookAnnotationStatusKey \in DOMAIN o.value.v.kv
  \/ /\ o.path = <<"metadata", "annotations", admissionWebhookAnnotationStatusKey>>
     /\ o.op \in {"add", "replace"}

C7_Idempotent ==
  (server = "v1" /\ pc = "reserved" /\ resp.hasResponse /\ resp.Response.Patch.set) =>
    \A k \in DOMAIN resp.Response.Patch.ops :
       ~C7_TouchesStatus(resp.Response.Patch.ops[k])

(***************************************************************************)
(* C8: every HTTP request whose body parsed into an admission review with  *)
(* a request is answered with an envelope holding a Response whose UID is  *)
(* the request's UID, for every URL path and every outcome.                *)
(***************************************************************************)
C8_Answered ==
  \/ server = "v1" /\ pc \in {"served", "reserved"}
  \/ server = "v2" /\ history # <<>>

C8_UIDEchoed ==
  (C8_Answered /\ Dispatched(req)) =>
    resp.hasResponse /\ resp.Response.UID = req.request.uid

(***************************************************************************)
(* C9: every request that fails (a kind the handler does not support,      *)
(* object bytes that do not parse, a patch computation or serialization    *)
(* failure) is rejected: allowed unset, result.message set (naming the     *)
(* kind when the kind is unsupported), no patch; the failure leaves the    *)
(* store unchanged; and no response has allowed=true with a message set.   *)
(***************************************************************************)
C9_Reached ==
  \/ ServedV1("/mutate") \/ ServedV1("/validate") \/ ServedV2
C9_Unsupported ==
  \/ server = "v1" /\ req.request.kind \notin {"Deployment", "Service"}
  \/ server = "v2" /\ req.request.kind \notin {"Deployment", "QoS"}
C9_Unparsable ==
  /\ ~C9_Unsupported
  /\ IF req.request.kind = "QoS" /\ req.request.operation = "DELETE"
     THEN ~req.request.oldObject.valid ELSE ~req.request.object.valid
C9_Fails ==
  C9_Reached /\ (C9_Unsupported \/ C9_Unparsable \/ PatchFailure(resp.Response))

C9_Rejected ==
  /\ resp.hasResponse
  /\ ~resp.Response.Allowed
  /\ resp.Response.Result.set /\ resp.Response.Result.Message.text # ""
  /\ ~resp.Response.Patch.set
  /\ C9_Unsupported => resp.Response.Result.Message.kind = req.request.kind

C9_State ==
  /\ C9_Fails => C9_Rejected
  /\ resp.hasResponse =>
       ~(resp.Response.Allowed /\ resp.Response.Result.Message.text # "")

C10_Case ==
  /\ C8_Answered /\ Dispatched(req) /\ Decodes(req, {"Deployment", "Service"})
  /\ ~Exempt(req.request.object.obj.meta.namespace)
C10_Meta == req.request.object.obj.meta
C10_Validate == AnnotationOf(C10_Meta, admissionWebhookAnnotationValidateKey)
C10_Mutate   == AnnotationOf(C10_Meta, admissionWebhookAnnotationMutateKey)
C10_Status   == AnnotationOf(C10_Meta, admissionWebhookAnnotationStatusKey)

C10_AsClaimed ==
  C10_Case =>
    LET notRequired == OptOutWord(C10_Mutate) \/ C10_Mutate = <<>>
                       \/ C10_Status = sMutated
    IN  /\ ~validationRequired(ignoredNamespaces, C10_Meta) <=> OptOutWord(C10_Validate)
        /\ ~mutationRequired(ignoredNamespaces, C10_Meta) <=> notRequired
        /\ ~mutationRequiredV2(ignoredNamespaces, C10_Meta) <=> notRequired

C10_DecisionTable ==
  C10_Case =>
    /\ ~validationRequired(ignoredNamespaces, C10_Meta) <=> OptOutWord(C10_Validate)
    /\ ~mutationRequired(ignoredNamespaces, C10_Meta)
         <=> (OptOutWord(C10_Mutate) \/ EqualFold(C10_Status, sMutated))
    /\ ~mutationRequiredV2(ignoredNamespaces, C10_Meta)
         <=> (OptOutWord(C10_Mutate) \/ C10_Mutate = <<>>)

\* a request opted in, its status "Mutated" in mixed case, has been answered
C10_Witness ==
  /\ C10_Case
  /\ C10_Mutate = <<"y","e","s">>
  /\ C10_Status = <<"M","u","t","a","t","e","d">>
  /\ ~mutationRequired(ignoredNamespaces, C10_Meta)
  /\ mutationRequiredV2(ignoredNamespaces, C10_Meta)

(***************************************************************************)
(* C11: the order of the patch operations is deterministic: two runs of    *)
(* createPatch on the same annotation maps and the same container list     *)
(* give the same operations in the same order, also when a container       *)
(* declares more than one resource request.  Stated on the run the server  *)
(* made: every other run createPatch may make on the same request (every   *)
(* order in which the range loops of part_000:143 and :182 may visit their *)
(* maps) returns the patch the server returned.                            *)
(* It does not hold: a container that requests cpu and memory has its two  *)
(* replace operations in either order.                                     *)
(***************************************************************************)
\* v1 answered a mutate request with a patch
C11_Case ==
  /\ ServedV1("/mutate") /\ pc = "served"
  /\ resp.hasResponse /\ resp.Response.Allowed /\ resp.Response.Patch.set

\* the patches the runs of mutate may return for the request served
C11_Runs == {mutate(req.request, order, FALSE).Patch.ops : order \in OrdersOf(req)}

C11_Deterministic == C11_Case => C11_Runs = {resp.Response.Patch.ops}

(***************************************************************************)
(* C12: the two mutation strategies are interchangeable: for the same      *)
(* Deployment request and the same store value, the direct mutate          *)
(* (part_000) and the diff-based mutate (v2) return the same allowed       *)
(* verdict, and applying either patch to the original object gives         *)
(* equivalent objects: the same annotations, the same container resource   *)
(* requests, the same init containers.  Stated on a Deployment request     *)
(* that one server answered with allowed: the other strategy, run on the   *)
(* same request and store without a patch failure, agrees.                 *)
(* It does not hold: the direct mutate sets the status annotation and      *)
(* reduces the requests, the diff-based one adds an init container.        *)
(***************************************************************************)
\* a server allowed a mutate request whose object decodes as a Deployment
C12_Case ==
  /\ \/ ServedV1("/mutate") /\ pc = "served"
     \/ ServedV2
  /\ Decodes(req, {"Deployment"})
  /\ resp.hasResponse /\ resp.Response.Allowed

\* the answers of the direct strategy: the one v1 gave, or those it would give
C12_Direct ==
  IF server = "v1" THEN {resp.Response}
  ELSE {mutate(req.request, order, FALSE) : order \in OrdersOf(req)}

\* the answer of the diff-based strategy: the one v2 gave, or the one it would give
C12_Diff ==
  IF server = "v2" THEN resp.Response
  ELSE mutateV2(req.request, QoSInst, FALSE, FALSE)

\* the original object with the patch of an answer applied
C12_Patched(answer) == applyPatch(req.request.object.obj, answer.Patch.ops)

C12_Requests(obj) == [i \in DOMAIN obj.containers |-> obj.containers[i].requests]

C12_Equivalent(a, b) ==
  /\ a.ok /\ b.ok
  /\ a.obj.meta.annotations.kv = b.obj.meta.annotations.kv
  /\ C12_Requests(a.obj) = C12_Requests(b.obj)
  /\ a.obj.initContainers = b.obj.initContainers

C12_Interchangeable ==
  C12_Case =>
    \A direct \in C12_Direct :
      /\ direct.Allowed = C12_Diff.Allowed
      /\ C12_Equivalent(C12_Patched(direct), C12_Patched(C12_Diff))

(***************************************************************************)
(* C13: mutation preserves the object's annotations: for a Deployment or   *)
(* a Service, applying the patch mutate (part_000) returned leaves every   *)
(* annotation the object carried unchanged, except the status key; and     *)
(* the patch has an add at /metadata/annotations, which installs a whole   *)
(* map, only when the object has no annotation map.                        *)
(* It does not hold: mutate never reads the object's annotations, so the   *)
(* add is always there and replaces the map.                               *)
(***************************************************************************)
\* v1 answered a mutate request for a Deployment or a Service with a patch
C13_Case ==
  /\ ServedV1("/mutate") /\ pc = "served"
  /\ Decodes(req, {"Deployment", "Service"})
  /\ resp.hasResponse /\ resp.Response.Allowed /\ resp.Response.Patch.set

C13_Before == req.request.object.obj.meta.annotations
C13_Patched == applyPatch(req.request.object.obj, resp.Response.Patch.ops)

C13_AddsMap ==
  \E i \in DOMAIN resp.Response.Patch.ops :
     /\ resp.Response.Patch.ops[i].op = "add"
     /\ resp.Response.Patch.ops[i].path = <<"metadata", "annotations">>

C13_AnnotationsKept ==
  C13_Case =>
    /\ C13_Patched.ok
    /\ \A key \in DOMAIN C13_Before.kv :
         key # admissionWebhookAnnotationStatusKey =>
           /\ Has(C13_Patched.obj.meta.annotations, key)
           /\ C13_Patched.obj.meta.annotations.kv[key] = C13_Before.kv[key]
    /\ C13_AddsMap => C13_Before.nil

====
